---- MODULE Spec2Model ----
(***************************************************************************)
(* Model of the HiFi Music API (main.py): the artist heuristic, the audio  *)
(* format selector, the metadata normaliser and the four JSON endpoints    *)
(* that sit on top of the external extraction engine.                      *)
(*                                                                         *)
(* Python values are modelled as tagged records so that "key absent",      *)
(* "None" and a real value stay distinguishable:                           *)
(*   string valued keys  [t : absent | none | str,  v : sequence of chars] *)
(*   number valued keys  [t : absent | none | int,  v : integer]           *)
(*   the formats key     [t : absent | none | list, v : sequence of dicts] *)
(* A Python string is the sequence of its characters.                      *)
(***************************************************************************)
EXTENDS Integers, Sequences, FiniteSets, TLC

VARIABLES
    pc,        \* position of the request being handled: "request" or "done"
    kind,      \* which handler runs: artist, search, track, stream, download
    arg,       \* the request's string: title (artist), q (search), track_id (others)
    quality,   \* the quality query parameter of stream / download
    engine,    \* what yt_dlp's extract_info does for this request
    url,       \* the local url of get_stream / get_download (get_stream_url's result)
    ret,       \* the return statement of get_stream_url that produced url
    artist,    \* the value returned by extract_artist
    response,  \* the value returned (or the HTTPException raised) by the handler
    rpc,       \* concurrent requests: position of each request
    rreq,      \* concurrent requests: handler and argument of each request
    rinfo,     \* concurrent requests: the engine outcome held in the request's locals
    rcalls,    \* concurrent requests: number of extract_info calls made so far
    rresp      \* concurrent requests: response of each request

vars == <<pc, kind, arg, quality, engine, url, ret, artist, response, rpc, rreq, rinfo, rcalls, rresp>>

(***************************************************************************)
(* Bounds                                                                  *)
(***************************************************************************)
MaxTitleLen == 5
MaxFormats == 2
MaxAbr == 1
MaxEntries == 2
MaxDuration == 1
NumRequests == 2

(***************************************************************************)
(* Python values                                                           *)
(***************************************************************************)
AbsentS == [t |-> "absent", v |-> <<>>]
NoneS == [t |-> "none", v |-> <<>>]
Str(s) == [t |-> "str", v |-> s]

AbsentN == [t |-> "absent", v |-> 0]
NoneN == [t |-> "none", v |-> 0]
Num(n) == [t |-> "int", v |-> n]

\* dict.get(key, default): the default is used only when the key is absent;
\* a key that is present with value None yields None.
Get(field, default) == IF field.t = "absent" THEN default ELSE field

\* dict.get(key): an absent key yields None.
GetS(field) == Get(field, NoneS)

\* Python truthiness of an optional string: None and "" are falsy.
Truthy(x) == x.t = "str" /\ Len(x.v) > 0

\* (x or 0) for an optional number: None and 0 are falsy.
OrZero(x) == IF x.t = "int" /\ x.v # 0 THEN x ELSE Num(0)

(***************************************************************************)
(* extract_artist                                                          *)
(***************************************************************************)
\* The characters titles are built from: a letter, two kinds of whitespace
\* and the characters the patterns look for.
Chars == {"a", " ", "\t", "-", ":", "(", ")"}

\* The characters that \s matches and str.strip() removes (str.isspace):
\* space, \t \n \r \f \v, the separators \x1c-\x1f, \x85, \xa0 and the
\* Unicode spaces. A character without an escape of its own in a string is
\* written by its Python escape.
Whitespace ==
    {" ", "\t", "\n", "\r", "\f", "\\x0b", "\\x1c", "\\x1d", "\\x1e", "\\x1f",
     "\\x85", "\\xa0", "\\u1680", "\\u2000", "\\u2001", "\\u2002", "\\u2003",
     "\\u2004", "\\u2005", "\\u2006", "\\u2007", "\\u2008", "\\u2009", "\\u200a",
     "\\u2028", "\\u2029", "\\u202f", "\\u205f", "\\u3000"}

IsSpace(c) == c \in Whitespace

UnknownArtist == <<"U", "n", "k", "n", "o", "w", "n", " ", "A", "r", "t", "i", "s", "t">>

RECURSIVE LStrip(_)
LStrip(s) == IF s # <<>> /\ IsSpace(Head(s)) THEN LStrip(Tail(s)) ELSE s

RECURSIVE RStrip(_)
RStrip(s) == IF s # <<>> /\ IsSpace(s[Len(s)]) THEN RStrip(SubSeq(s, 1, Len(s) - 1)) ELSE s

\* str.strip()
Strip(s) == RStrip(LStrip(s))

Max(S) == CHOOSE m \in S : \A n \in S : n <= m
Min(S) == CHOOSE m \in S : \A n \in S : m <= n

\* The group lengths g for which  ^([^sep]+)\s*sep  matches at the start of s:
\* g >= 1 characters other than sep, then k >= 0 whitespace characters,
\* then sep.
SepGroupLens(s, sep) ==
    {g \in 1..Len(s) :
        /\ \A i \in 1..g : s[i] # sep
        /\ \E k \in 0..(Len(s) - g - 1) :
              /\ \A j \in (g + 1)..(g + k) : IsSpace(s[j])
              /\ s[g + k + 1] = sep}

SepMatches(s, sep) == SepGroupLens(s, sep) # {}

\* The + is greedy, so the first successful match has the longest group.
SepGroup(s, sep) == SubSeq(s, 1, Max(SepGroupLens(s, sep)))

\* The group lengths g for which  \(([^)]+)\)  matches with its "(" at st.
ParenGroupLens(s, st) ==
    {g \in 1..(Len(s) - st - 1) :
        /\ s[st] = "("
        /\ \A i \in (st + 1)..(st + g) : s[i] # ")"
        /\ s[st + g + 1] = ")"}

ParenStarts(s) == {st \in 1..Len(s) : ParenGroupLens(s, st) # {}}

ParenMatches(s) == ParenStarts(s) # {}

\* re.search returns the leftmost match.
ParenGroup(s) ==
    LET st == Min(ParenStarts(s))
    IN SubSeq(s, st + 1, st + Max(ParenGroupLens(s, st)))

extract_artist_colon_first(s) ==
    IF SepMatches(s, ":") THEN Strip(SepGroup(s, ":"))
    ELSE IF SepMatches(s, "-") THEN Strip(SepGroup(s, "-"))
    ELSE IF ParenMatches(s) THEN Strip(ParenGroup(s))
    ELSE UnknownArtist

extract_artist(s) ==
    IF SepMatches(s, "-") THEN Strip(SepGroup(s, "-"))
    ELSE IF SepMatches(s, ":") THEN Strip(SepGroup(s, ":"))
    ELSE IF ParenMatches(s) THEN Strip(ParenGroup(s))
    ELSE UnknownArtist

(***************************************************************************)
(* Format selector: get_stream_url                                         *)
(***************************************************************************)
NoneCodec == <<"n", "o", "n", "e">>

\* f.get('acodec') != 'none': a format without the key, or with None, passes.
HasAudio(f) == GetS(f.acodec) # Str(NoneCodec)

\* [f for f in formats if f.get('acodec') != 'none']
AudioFormats(formats) == SelectSeq(formats, HasAudio)

\* key=lambda x: x.get('abr', 0)
AbrKey(f) == Get(f.abr, Num(0))

\* max(audio_formats, key=...) from element i on, best being the maximum so
\* far. Each further element is compared with the current maximum by ">", so
\* the first maximal element is kept; comparing None with anything raises
\* TypeError. A one-element list is never compared.
RECURSIVE MaxFrom(_, _, _)
MaxFrom(fs, i, best) ==
    IF i > Len(fs) THEN [raised |-> FALSE, f |-> best]
    ELSE IF AbrKey(fs[i]).t = "none" \/ AbrKey(best).t = "none"
         THEN [raised |-> TRUE, f |-> best]
    ELSE IF AbrKey(fs[i]).v > AbrKey(best).v THEN MaxFrom(fs, i + 1, fs[i])
    ELSE MaxFrom(fs, i + 1, best)

MaxByAbr(fs) == MaxFrom(fs, 2, fs[1])

\* get_stream_url with a fallback to the entry's url when the chosen format
\* carries none.
get_stream_url_or_top(out) ==
    IF out.t # "dict" THEN [url |-> NoneS, ret |-> "L105"]
    ELSE IF Get(out.formats, [t |-> "list", v |-> <<>>]).t = "none"
         THEN [url |-> NoneS, ret |-> "L105"]
    ELSE LET audio == AudioFormats(Get(out.formats, [t |-> "list", v |-> <<>>]).v)
         IN IF audio # <<>>
            THEN IF MaxByAbr(audio).raised THEN [url |-> NoneS, ret |-> "L105"]
                 ELSE IF Truthy(GetS(MaxByAbr(audio).f.url))
                      THEN [url |-> GetS(MaxByAbr(audio).f.url), ret |-> "L100"]
                      ELSE [url |-> GetS(out.url), ret |-> "L102"]
            ELSE [url |-> GetS(out.url), ret |-> "L102"]

\* get_stream_url: the value returned and the return statement reached.
\* The engine raising, returning None, a formats value of None and the
\* TypeError of max all end in the except clause (line 105).
get_stream_url(out) ==
    IF out.t # "dict" THEN [url |-> NoneS, ret |-> "L105"]
    ELSE IF Get(out.formats, [t |-> "list", v |-> <<>>]).t = "none"
         THEN [url |-> NoneS, ret |-> "L105"]
    ELSE LET audio == AudioFormats(Get(out.formats, [t |-> "list", v |-> <<>>]).v)
         IN IF audio # <<>>
            THEN IF MaxByAbr(audio).raised THEN [url |-> NoneS, ret |-> "L105"]
                 ELSE [url |-> GetS(MaxByAbr(audio).f.url), ret |-> "L100"]
            ELSE [url |-> GetS(out.url), ret |-> "L102"]

NotFound(detail) == [status |-> 404, detail |-> detail]

\* The body of get_stream after the call of get_stream_url, testing only
\* for None.
stream_response_none_only(u, qual) ==
    IF u.t = "none" THEN NotFound("Stream URL not found")
    ELSE [status |-> 200,
          body |-> [status |-> "success",
                    data |-> [stream_url |-> u, quality |-> qual, expires_at |-> NoneS]]]

\* The body of get_stream after the call of get_stream_url.
stream_response(u, qual) ==
    IF ~Truthy(u) THEN NotFound("Stream URL not found")
    ELSE [status |-> 200,
          body |-> [status |-> "success",
                    data |-> [stream_url |-> u, quality |-> qual, expires_at |-> NoneS]]]

\* The body of get_download after the call of get_stream_url.
download_response(u, qual) ==
    IF ~Truthy(u) THEN NotFound("Download URL not found")
    ELSE [status |-> 200,
          body |-> [status |-> "success",
                    data |-> [download_url |-> u, quality |-> qual,
                              file_size |-> NoneS, expires_at |-> NoneS]]]

(***************************************************************************)
(* Metadata normaliser: search_youtube, /api/search, /api/track/{id}       *)
(***************************************************************************)
Unknown == <<"U", "n", "k", "n", "o", "w", "n">>

High == <<"H", "i", "g", "h">>

\* (d.get('duration', 0) or 0) without the scaling to milliseconds.
DurationSeconds(d) == OrZero(Get(d, Num(0))).v

\* (d.get('duration', 0) or 0) * 1000
DurationMs(d) == OrZero(Get(d, Num(0))).v * 1000

\* "if entry:"  None and the empty dict are falsy; a dict with a key and an
\* entry that is no dict at all (a non-empty string, say) are truthy.
EntryTruthy(e) ==
    \/ e.t = "malformed"
    \/ /\ e.t = "dict"
       /\ \E k \in {"id", "title", "duration", "url", "album", "thumbnail"} : e[k].t # "absent"

\* Building the track of a truthy entry raises when the entry has no get
\* (AttributeError) or when its title is None: entry.get('title', '') is
\* then None and re.search raises TypeError.
EntryRaises(e) == e.t = "malformed" \/ Get(e.title, Str(<<>>)).t = "none"

\* The dict appended for one entry (lines 53-61).
SearchTrack(e) ==
    [id |-> GetS(e.id),
     title |-> Get(e.title, Str(Unknown)),
     artist |-> extract_artist(Get(e.title, Str(<<>>)).v),
     album |-> Get(e.album, Str(Unknown)),
     cover_url |-> GetS(e.thumbnail),
     duration |-> DurationMs(e.duration),
     quality |-> High]

\* The loop of lines 51-61 from entry i on, acc being the tracks so far.
RECURSIVE BuildTracks(_, _, _)
BuildTracks(es, i, acc) ==
    IF i > Len(es) THEN [raised |-> FALSE, tracks |-> acc]
    ELSE IF ~EntryTruthy(es[i]) THEN BuildTracks(es, i + 1, acc)
    ELSE IF EntryRaises(es[i]) THEN [raised |-> TRUE, tracks |-> acc]
    ELSE BuildTracks(es, i + 1, Append(acc, SearchTrack(es[i])))

\* The try block of search_youtube: the engine raising, a result of None
\* (None.get), entries of None (not iterable) and a raising entry all raise.
SearchTry(out) ==
    IF out.t # "dict" THEN [raised |-> TRUE, tracks |-> <<>>]
    ELSE IF Get(out.entries, [t |-> "list", v |-> <<>>]).t = "none"
         THEN [raised |-> TRUE, tracks |-> <<>>]
    ELSE BuildTracks(Get(out.entries, [t |-> "list", v |-> <<>>]).v, 1, <<>>)

\* search_youtube: every exception is caught and turned into [].
search_youtube(out) == IF SearchTry(out).raised THEN <<>> ELSE SearchTry(out).tracks

\* search with the failure of the engine propagated as a 500.
search_response_propagating(q, out) ==
    IF q = <<>> THEN [status |-> 400, detail |-> "Query parameter 'q' is required"]
    ELSE IF SearchTry(out).raised THEN [status |-> 500, detail |-> "exception"]
    ELSE [status |-> 200,
          body |-> [status |-> "success",
                    data |-> [tracks |-> search_youtube(out),
                              artists |-> <<>>, albums |-> <<>>]]]

\* search: GET /api/search
search_response(q, out) ==
    IF q = <<>> THEN [status |-> 400, detail |-> "Query parameter 'q' is required"]
    ELSE [status |-> 200,
          body |-> [status |-> "success",
                    data |-> [tracks |-> search_youtube(out),
                              artists |-> <<>>, albums |-> <<>>]]]

Digits == <<"0", "1", "2", "3", "4", "5", "6", "7", "8", "9">>

\* str(n) for n >= 0
RECURSIVE Decimal(_)
Decimal(n) == IF n < 10 THEN <<Digits[n + 1]>> ELSE Decimal(n \div 10) \o <<Digits[(n % 10) + 1]>>

\* f"{info.get('abr', 128)} kbps"
Bitrate(abr) ==
    (IF Get(abr, Num(128)).t = "none" THEN <<"N", "o", "n", "e">>
     ELSE Decimal(Get(abr, Num(128)).v)) \o <<" ", "k", "b", "p", "s">>

\* get_track: GET /api/track/{track_id}. The engine raising, a result of
\* None and a title of None (TypeError in extract_artist) end in the except
\* clause, which answers 404.
track_response(track_id, out) ==
    IF out.t # "dict" THEN NotFound("exception")
    ELSE IF Get(out.title, Str(<<>>)).t = "none" THEN NotFound("exception")
    ELSE [status |-> 200,
          body |-> [status |-> "success",
                    data |-> [id |-> track_id,
                              title |-> GetS(out.title),
                              artist |-> extract_artist(Get(out.title, Str(<<>>)).v),
                              album |-> Get(out.album, Str(Unknown)),
                              cover_url |-> GetS(out.thumbnail),
                              duration |-> DurationMs(out.duration),
                              quality |-> High,
                              bitrate |-> Bitrate(out.abr),
                              sample_rate |-> "44.1 kHz"]]]

(***************************************************************************)
(* Inputs                                                                  *)
(***************************************************************************)
SeqsUpTo(S, n) == UNION {[1..m -> S] : m \in 0..n}

Titles == SeqsUpTo(Chars, MaxTitleLen)

IdxChar == <<"1", "2", "3", "4", "5", "6", "7", "8", "9">>

\* The delivery URL of the format at position i of a formats list.
FormatUrl(i) == <<"u", IdxChar[i]>>

TopUrl == <<"t">>

Opus == <<"o", "p", "u", "s">>

FormatShapes ==
    [acodec : {AbsentS, Str(NoneCodec), Str(Opus)},
     abr : {AbsentN, NoneN} \cup {Num(n) : n \in 0..MaxAbr},
     url : {AbsentS, Str(<<"u">>)}]

\* The formats list of the given shapes: the format at position i carries
\* FormatUrl(i) or no url key.
MkFormats(sh) ==
    [i \in DOMAIN sh |-> [acodec |-> sh[i].acodec, abr |-> sh[i].abr,
                          url |-> IF sh[i].url = Str(<<"u">>) THEN Str(FormatUrl(i))
                                  ELSE sh[i].url]]

TopUrls == {AbsentS, Str(<<>>), Str(TopUrl)}

\* extract_info raising, and extract_info returning None.
StreamFailures ==
    {[t |-> "raise", formats |-> [t |-> "absent", v |-> <<>>], url |-> AbsentS],
     [t |-> "none", formats |-> [t |-> "absent", v |-> <<>>], url |-> AbsentS]}

Qualities == {"high", "low"}

TrackId == <<"x">>

NoResponse == [status |-> 0]
NoEngine == [t |-> "unused"]

\* The variables of the concurrent-request specification, at rest.
ConcIdle ==
    /\ rpc = <<>>
    /\ rreq = <<>>
    /\ rinfo = <<>>
    /\ rcalls = <<>>
    /\ rresp = <<>>

ConcUnchanged == UNCHANGED <<rpc, rreq, rinfo, rcalls, rresp>>

(***************************************************************************)
(* extract_artist applied to every title                                   *)
(***************************************************************************)
InitArtist ==
    /\ pc = "request"
    /\ kind = "artist"
    /\ arg \in Titles
    /\ quality = "high"
    /\ engine = NoEngine
    /\ url = NoneS
    /\ ret = "-"
    /\ artist = <<>>
    /\ response = NoResponse
    /\ ConcIdle

ExtractArtist ==
    /\ pc = "request"
    /\ kind = "artist"
    /\ artist' = extract_artist(arg)
    /\ pc' = "done"
    /\ UNCHANGED <<kind, arg, quality, engine, url, ret, response>>
    /\ ConcUnchanged

NextArtist == ExtractArtist

SpecArtist == InitArtist /\ [][NextArtist]_vars

(***************************************************************************)
(* /api/stream/{id} and /api/download/{id}                                 *)
(***************************************************************************)
InitStream ==
    /\ pc = "request"
    /\ kind \in {"stream", "download"}
    /\ arg = TrackId
    /\ quality \in Qualities
    /\ \/ engine \in StreamFailures
       \/ engine \in [t : {"dict"},
                      formats : {[t |-> "absent", v |-> <<>>], [t |-> "none", v |-> <<>>]},
                      url : TopUrls]
       \/ \E n \in 0..MaxFormats : \E sh \in [1..n -> FormatShapes] : \E top \in TopUrls :
             engine = [t |-> "dict", formats |-> [t |-> "list", v |-> MkFormats(sh)],
                       url |-> top]
    /\ url = NoneS
    /\ ret = "-"
    /\ artist = <<>>
    /\ response = NoResponse
    /\ ConcIdle

GetStream ==
    /\ pc = "request"
    /\ kind = "stream"
    /\ url' = get_stream_url(engine).url
    /\ ret' = get_stream_url(engine).ret
    /\ response' = stream_response(get_stream_url(engine).url, quality)
    /\ pc' = "done"
    /\ UNCHANGED <<kind, arg, quality, engine, artist>>
    /\ ConcUnchanged

GetDownload ==
    /\ pc = "request"
    /\ kind = "download"
    /\ url' = get_stream_url(engine).url
    /\ ret' = get_stream_url(engine).ret
    /\ response' = download_response(get_stream_url(engine).url, quality)
    /\ pc' = "done"
    /\ UNCHANGED <<kind, arg, quality, engine, artist>>
    /\ ConcUnchanged

NextStream == GetStream \/ GetDownload

SpecStream == InitStream /\ [][NextStream]_vars

(***************************************************************************)
(* /api/search and /api/track/{id}                                         *)
(***************************************************************************)
EntryTitles == {AbsentS, NoneS, Str(<<>>), Str(<<"a", " ", "-", " ", "a">>)}

Durations == {AbsentN, NoneN} \cup {Num(n) : n \in 0..MaxDuration}

\* The id of the entry at position i of a search result.
EntryId(i) == <<"v", IdxChar[i]>>

EntryUrl == <<"w">>

NoEntry(t) ==
    [t |-> t, id |-> AbsentS, title |-> AbsentS, duration |-> AbsentN,
     url |-> AbsentS, album |-> AbsentS, thumbnail |-> AbsentS]

\* The entries a flat search yields: None, something that is no dict, the
\* empty dict, or a dict with an id and any of title, duration and url.
EntryShapes ==
    {NoEntry("none"), NoEntry("malformed"), NoEntry("dict")}
    \cup [t : {"dict"}, id : {Str(<<"v">>)}, title : EntryTitles, duration : Durations,
          url : {AbsentS, Str(EntryUrl)}, album : {AbsentS}, thumbnail : {AbsentS}]

\* The entries list of the given shapes: a dict entry with an id carries
\* the id of its position.
MkEntries(sh) ==
    [i \in DOMAIN sh |-> IF sh[i].id = Str(<<"v">>)
                         THEN [sh[i] EXCEPT !.id = Str(EntryId(i))]
                         ELSE sh[i]]

\* extract_info raising, and extract_info returning None.
SearchRaises == [t |-> "raise", entries |-> [t |-> "absent", v |-> <<>>]]

SearchFailures == {SearchRaises, [t |-> "none", entries |-> [t |-> "absent", v |-> <<>>]]}

AudioFormat == [acodec |-> Str(Opus), abr |-> Num(MaxAbr), url |-> Str(FormatUrl(1))]

VideoFormat == [acodec |-> Str(NoneCodec), abr |-> AbsentN, url |-> Str(FormatUrl(1))]

TrackFormats ==
    {[t |-> "absent", v |-> <<>>], [t |-> "list", v |-> <<AudioFormat>>],
     [t |-> "list", v |-> <<VideoFormat>>]}

NoInfo(t) ==
    [t |-> t, title |-> AbsentS, album |-> AbsentS, thumbnail |-> AbsentS,
     duration |-> AbsentN, abr |-> AbsentN,
     formats |-> [t |-> "absent", v |-> <<>>], url |-> AbsentS]

\* What extract_info does for a watch URL in get_track.
TrackOutcomes ==
    {NoInfo("raise"), NoInfo("none")}
    \cup [t : {"dict"}, title : EntryTitles, album : {AbsentS, Str(<<"A">>)},
          thumbnail : {AbsentS, Str(<<"c">>)}, duration : Durations,
          abr : {AbsentN, NoneN, Num(MaxAbr)}, formats : TrackFormats,
          url : {AbsentS, Str(TopUrl)}]

InitCatalog ==
    /\ pc = "request"
    /\ \/ /\ kind = "search"
          /\ \/ arg = <<>> /\ engine = SearchRaises
             \/ /\ arg = <<"q">>
                /\ \/ engine \in SearchFailures
                   \/ engine \in [t : {"dict"},
                                  entries : {[t |-> "absent", v |-> <<>>],
                                             [t |-> "none", v |-> <<>>]}]
                   \/ \E n \in 0..MaxEntries : \E sh \in [1..n -> EntryShapes] :
                         engine = [t |-> "dict",
                                   entries |-> [t |-> "list", v |-> MkEntries(sh)]]
       \/ /\ kind = "track"
          /\ arg = TrackId
          /\ engine \in TrackOutcomes
    /\ quality = "high"
    /\ url = NoneS
    /\ ret = "-"
    /\ artist = <<>>
    /\ response = NoResponse
    /\ ConcIdle

Search ==
    /\ pc = "request"
    /\ kind = "search"
    /\ response' = search_response(arg, engine)
    /\ pc' = "done"
    /\ UNCHANGED <<kind, arg, quality, engine, url, ret, artist>>
    /\ ConcUnchanged

GetTrack ==
    /\ pc = "request"
    /\ kind = "track"
    /\ response' = track_response(arg, engine)
    /\ pc' = "done"
    /\ UNCHANGED <<kind, arg, quality, engine, url, ret, artist>>
    /\ ConcUnchanged

NextCatalog == Search \/ GetTrack

SpecCatalog == InitCatalog /\ [][NextCatalog]_vars

(***************************************************************************)
(* Concurrent requests. A request is handled in two steps, the call of the *)
(* engine and the rest of the handler; the steps of different requests     *)
(* interleave freely (several server processes or threads).                *)
(***************************************************************************)
Requests == 1..NumRequests

RequestShapes ==
    {[kind |-> "search", arg |-> <<>>], [kind |-> "search", arg |-> <<"q">>],
     [kind |-> "track", arg |-> TrackId], [kind |-> "stream", arg |-> TrackId],
     [kind |-> "download", arg |-> TrackId]}

GoodEntry ==
    [t |-> "dict", id |-> Str(EntryId(1)), title |-> Str(<<"a", " ", "-", " ", "a">>),
     duration |-> Num(MaxDuration), url |-> Str(EntryUrl), album |-> AbsentS,
     thumbnail |-> AbsentS]

\* What the engine may do for a request of the given kind.
ConcOutcomes(k) ==
    IF k = "search"
    THEN {SearchRaises,
          [t |-> "dict", entries |-> [t |-> "list", v |-> <<>>]],
          [t |-> "dict", entries |-> [t |-> "list", v |-> <<GoodEntry>>]]}
    ELSE IF k = "track"
    THEN {NoInfo("raise"), NoInfo("dict"),
          [NoInfo("dict") EXCEPT !.title = Str(<<"a">>), !.duration = Num(MaxDuration)]}
    ELSE {[t |-> "raise", formats |-> [t |-> "absent", v |-> <<>>], url |-> AbsentS],
          [t |-> "dict", formats |-> [t |-> "absent", v |-> <<>>], url |-> Str(TopUrl)],
          [t |-> "dict", formats |-> [t |-> "list", v |-> <<AudioFormat>>], url |-> AbsentS]}

\* The response of a handler to a request, given what its engine call did.
Handle(req, out) ==
    IF req.kind = "search" THEN search_response(req.arg, out)
    ELSE IF req.kind = "track" THEN track_response(req.arg, out)
    ELSE IF req.kind = "stream" THEN stream_response(get_stream_url(out).url, "high")
    ELSE download_response(get_stream_url(out).url, "high")

\* The number of engine calls of a request that retries its call once.
CallsAfterRetry(n) == n + 2

\* The number of engine calls of a request after its extract_info call.
CallsAfter(n) == n + 1

InitConc ==
    /\ pc = "idle"
    /\ kind = "concurrent"
    /\ arg = <<>>
    /\ quality = "high"
    /\ engine = NoEngine
    /\ url = NoneS
    /\ ret = "-"
    /\ artist = <<>>
    /\ response = NoResponse
    /\ rreq \in [Requests -> RequestShapes]
    /\ rpc = [r \in Requests |-> "start"]
    /\ rinfo = [r \in Requests |-> NoEngine]
    /\ rcalls = [r \in Requests |-> 0]
    /\ rresp = [r \in Requests |-> NoResponse]

SeqUnchanged == UNCHANGED <<pc, kind, arg, quality, engine, url, ret, artist, response>>

\* search with an empty q: 400 before search_youtube is called.
RejectEmptyQuery(r) ==
    /\ rpc[r] = "start"
    /\ rreq[r].kind = "search"
    /\ rreq[r].arg = <<>>
    /\ rresp' = [rresp EXCEPT ![r] = search_response(rreq[r].arg, SearchRaises)]
    /\ rpc' = [rpc EXCEPT ![r] = "done"]
    /\ UNCHANGED <<rreq, rinfo, rcalls>>
    /\ SeqUnchanged

\* The handler of request r reaches its extract_info call.
CallEngine(r) ==
    /\ rpc[r] = "start"
    /\ ~(rreq[r].kind = "search" /\ rreq[r].arg = <<>>)
    /\ \E out \in ConcOutcomes(rreq[r].kind) :
          rinfo' = [rinfo EXCEPT ![r] = out]
    /\ rcalls' = [rcalls EXCEPT ![r] = CallsAfter(rcalls[r])]
    /\ rpc' = [rpc EXCEPT ![r] = "called"]
    /\ UNCHANGED <<rreq, rresp>>
    /\ SeqUnchanged

\* The handler of request r builds its response from its own engine result.
Respond(r) ==
    /\ rpc[r] = "called"
    /\ rresp' = [rresp EXCEPT ![r] = Handle(rreq[r], rinfo[r])]
    /\ rpc' = [rpc EXCEPT ![r] = "done"]
    /\ UNCHANGED <<rreq, rinfo, rcalls>>
    /\ SeqUnchanged

NextConc == \E r \in Requests : RejectEmptyQuery(r) \/ CallEngine(r) \/ Respond(r)

SpecConc == InitConc /\ [][NextConc]_vars

(***************************************************************************)
(* Claims about the format selector and the stream / download endpoints    *)
(***************************************************************************)
\* The formats list get_stream_url works on: info.get('formats', []).
EngineFormats == IF engine.formats.t = "list" THEN engine.formats.v ELSE <<>>

HandledStream == pc = "done" /\ kind \in {"stream", "download"}

\* The rank the claim gives a format: its bitrate, 0 when not reported.
ClaimedRank(f) == IF f.abr.t = "int" THEN f.abr.v ELSE 0

\* The first format of fs whose claimed rank is maximal.
ClaimedBest(fs) ==
    fs[Min({i \in 1..Len(fs) : \A j \in 1..Len(fs) : ClaimedRank(fs[j]) <= ClaimedRank(fs[i])})]

\* C1 (as stated): whenever the formats list holds an audio-present format,
\* get_stream_url returns the url of the first audio-present format of
\* maximal bitrate, a bitrate that is absent or null counting as 0.
C1_MaxBitrateNullAsZero ==
    (HandledStream /\ engine.t = "dict" /\ AudioFormats(EngineFormats) # <<>>)
        => url = GetS(ClaimedBest(AudioFormats(EngineFormats)).url)

\* C2: the entry's top-level url is what get_stream_url returns (the return
\* of line 102 is reached) exactly when no format is audio-present; with an
\* audio-present format the result is that of the selection, never the
\* top-level url, even when the selection yields no url.
C2_TopUrlIffNoAudio ==
    (HandledStream /\ engine.t = "dict" /\ engine.formats.t # "none")
        => /\ (ret = "L102") <=> (AudioFormats(EngineFormats) = <<>>)
           /\ (ret = "L102") => (url = GetS(engine.url))
           /\ (AudioFormats(EngineFormats) # <<>>)
                 => /\ url # Str(TopUrl)
                    /\ url \in {NoneS} \cup
                          {GetS(AudioFormats(EngineFormats)[i].url) :
                              i \in 1..Len(AudioFormats(EngineFormats))}

\* C2 witness: an audio-present format without url was chosen while the
\* entry has a top-level url; nothing is returned.
C2_Witness ==
    /\ HandledStream
    /\ engine.t = "dict"
    /\ engine.url = Str(TopUrl)
    /\ Len(AudioFormats(EngineFormats)) = 1
    /\ AudioFormats(EngineFormats)[1].url = AbsentS
    /\ ret = "L100"
    /\ url = NoneS

\* C3: stream / download answer 404 exactly when no non-empty url was
\* obtained (in particular when the engine raised); otherwise they answer
\* success with exactly the selected url, the request's quality and null
\* expires_at (and file_size); success never carries an empty or null url.
C3_NotFoundIffNoUrl ==
    HandledStream
        => /\ (response.status = 404) <=> ~Truthy(url)
           /\ engine.t \in {"raise", "none"} => response.status = 404
           /\ response.status # 404
                => /\ response.status = 200
                   /\ response.body.status = "success"
                   /\ response.body.data.quality = quality
                   /\ response.body.data.expires_at = NoneS
                   /\ kind = "stream"
                        => /\ response.body.data.stream_url = url
                           /\ Truthy(response.body.data.stream_url)
                   /\ kind = "download"
                        => /\ response.body.data.download_url = url
                           /\ Truthy(response.body.data.download_url)
                           /\ response.body.data.file_size = NoneS

\* C3 witness: a stream request with quality "low" that succeeded with the
\* url of the second format.
C3_Witness ==
    /\ HandledStream
    /\ kind = "stream"
    /\ quality = "low"
    /\ response.status = 200
    /\ response.body.data.stream_url = Str(FormatUrl(2))

(***************************************************************************)
(* Claims about extract_artist                                             *)
(***************************************************************************)
HandledArtist == pc = "done" /\ kind = "artist"

\* Index of the first occurrence of character c in s, 0 when there is none.
FirstIdx(s, c) ==
    IF \E i \in 1..Len(s) : s[i] = c THEN Min({i \in 1..Len(s) : s[i] = c}) ELSE 0

\* The "(" that open a parenthesis group: followed by a character other
\* than ")" and, later, by a ")".
GroupOpens(s) ==
    {i \in 1..Len(s) : /\ s[i] = "("
                       /\ i + 1 <= Len(s)
                       /\ s[i + 1] # ")"
                       /\ \E e \in (i + 2)..Len(s) : s[e] = ")"}

\* The text between the first such "(" and the next ")".
FirstGroupText(s) ==
    LET i == Min(GroupOpens(s))
    IN SubSeq(s, i + 1, Min({e \in (i + 2)..Len(s) : s[e] = ")"}) - 1)

\* Index of the first occurrence of " sep " (sep between two spaces) in s,
\* 0 when there is none.
FirstSpacedIdx(s, sep) ==
    IF \E i \in 1..(Len(s) - 2) : s[i] = " " /\ s[i + 1] = sep /\ s[i + 2] = " "
    THEN Min({i \in 1..(Len(s) - 2) : s[i] = " " /\ s[i + 1] = sep /\ s[i + 2] = " "})
    ELSE 0

\* The artist the claim as stated gives: the separators are " - " and " : ".
ClaimedArtist(s) ==
    IF FirstSpacedIdx(s, "-") > 0 THEN Strip(SubSeq(s, 1, FirstSpacedIdx(s, "-") - 1))
    ELSE IF FirstSpacedIdx(s, ":") > 0 THEN Strip(SubSeq(s, 1, FirstSpacedIdx(s, ":") - 1))
    ELSE IF GroupOpens(s) # {} THEN Strip(FirstGroupText(s))
    ELSE UnknownArtist

\* C7 (as stated): extract_artist returns the trimmed text before the first
\* " - ", else before the first " : ", else inside the first parenthesis
\* group, and "Unknown Artist" exactly when there is none of them.
C7_SpacedSeparators ==
    HandledArtist
        => /\ artist = ClaimedArtist(arg)
           /\ (artist = UnknownArtist)
                <=> /\ FirstSpacedIdx(arg, "-") = 0
                    /\ FirstSpacedIdx(arg, ":") = 0
                    /\ GroupOpens(arg) = {}

\* C7 (amended): the separator of (a) is the first hyphen, with or without
\* spaces around it, provided it is not the first character; that of (b) the
\* first colon, likewise; (c) is the first non-empty parenthesis group. The
\* result is the trimmed text of the first of (a), (b), (c) that applies and
\* "Unknown Artist" when none does; a title without hyphen, colon and
\* parentheses gives "Unknown Artist".
C7_ArtistByFirstSeparator ==
    HandledArtist
        => /\ IF FirstIdx(arg, "-") > 1
                THEN artist = Strip(SubSeq(arg, 1, FirstIdx(arg, "-") - 1))
              ELSE IF FirstIdx(arg, ":") > 1
                THEN artist = Strip(SubSeq(arg, 1, FirstIdx(arg, ":") - 1))
              ELSE IF GroupOpens(arg) # {}
                THEN artist = Strip(FirstGroupText(arg))
              ELSE artist = UnknownArtist
           /\ (\A i \in 1..Len(arg) : arg[i] \notin {"-", ":", "(", ")"})
                => artist = UnknownArtist
           /\ artist # <<>> => ~IsSpace(artist[1]) /\ ~IsSpace(artist[Len(artist)])

\* C7 witness: a title with a hyphen and a parenthesis group, "a-(a)", is
\* resolved by the hyphen.
C7_Witness ==
    /\ HandledArtist
    /\ arg = <<"a", "-", "(", "a", ")">>
    /\ GroupOpens(arg) # {}
    /\ artist = <<"a">>

(***************************************************************************)
(* Claims about /api/search and /api/track/{id}                            *)
(***************************************************************************)
HandledSearch == pc = "done" /\ kind = "search" /\ arg # <<>>

HandledTrack == pc = "done" /\ kind = "track"

\* The entries list of the engine's search result.
EngineEntries ==
    IF engine.t = "dict" /\ engine.entries.t = "list" THEN engine.entries.v ELSE <<>>

\* The tracks of a search response.
Tracks == response.body.data.tracks

\* An entry that is neither None nor the empty dict.
NonEmptyEntry(e) ==
    e.t = "malformed" \/ (e.t = "dict" /\ (e.id.t # "absent" \/ e.title.t # "absent"
                                           \/ e.duration.t # "absent" \/ e.url.t # "absent"))

\* The entries of the result that are emitted, in order.
Emitted == SelectSeq(EngineEntries, NonEmptyEntry)

\* A non-empty url could be resolved for the entry (a flat entry carries no
\* formats, so the url is the entry's own).
Resolvable(e) == e.t = "dict" /\ e.url.t = "str" /\ e.url.v # <<>>

\* C4: with a non-empty q, search answers success with tracks and empty
\* artists and albums whatever the engine does, and with no tracks when the
\* engine raises.
C4_SearchNeverFails ==
    HandledSearch
        => /\ response.status = 200
           /\ response.body.status = "success"
           /\ DOMAIN response.body.data = {"tracks", "artists", "albums"}
           /\ response.body.data.artists = <<>>
           /\ response.body.data.albums = <<>>
           /\ Len(Tracks) <= Len(EngineEntries)
           /\ engine.t = "raise" => Tracks = <<>>

\* C4 witness: the engine returned a malformed entry after a good one and
\* the answer is a success without tracks.
C4_Witness ==
    /\ HandledSearch
    /\ Len(EngineEntries) = 2
    /\ EngineEntries[1].t = "dict"
    /\ EngineEntries[1].title.t = "str"
    /\ EngineEntries[2].t = "malformed"
    /\ response.status = 200
    /\ Tracks = <<>>

\* C5: every emitted Track comes from an entry for which a
\* non-empty url could be resolved; the entries without one are omitted and
\* the others emitted.
C5_OnlyResolvableEmitted ==
    HandledSearch
        => \A i \in 1..Len(Tracks) :
              \E j \in 1..Len(EngineEntries) :
                 /\ Tracks[i].id = EngineEntries[j].id
                 /\ Resolvable(EngineEntries[j])

\* The entry has no audio-present format and no top-level url.
NoUsableUrl(info) ==
    /\ AudioFormats(IF info.formats.t = "list" THEN info.formats.v ELSE <<>>) = <<>>
    /\ ~Truthy(GetS(info.url))

\* C6: get_track answers 404 for an entry without usable audio
\* url.
C6_TrackWithoutUrlNotFound ==
    (HandledTrack /\ engine.t = "dict" /\ NoUsableUrl(engine)) => response.status = 404

\* The title the claim requires: the default for a title that is absent,
\* null or empty.
ClaimedTitle(t) == IF t.t = "str" /\ t.v # <<>> THEN t ELSE Str(Unknown)

\* C8 (as stated): no Track is emitted with a null or empty title; the
\* title emitted by search and by get_track is "Unknown" when the engine's
\* title is absent, null or empty and the engine's title otherwise.
C8_TitleDefaulted ==
    /\ HandledSearch
         => \A i \in 1..Len(Tracks) :
               /\ Truthy(Tracks[i].title)
               /\ Len(Tracks) = Len(Emitted) => Tracks[i].title = ClaimedTitle(Emitted[i].title)
    /\ (HandledTrack /\ response.status = 200)
         => /\ Truthy(response.body.data.title)
            /\ response.body.data.title = ClaimedTitle(engine.title)

\* The duration the claim requires.
ClaimedDuration(d) == IF d.t = "int" THEN d.v * 1000 ELSE 0

\* C9: an emitted Track has duration 0 when the entry's duration is absent
\* or null and d * 1000 when it is d; it is a non-negative multiple of 1000.
C9_DurationMilliseconds ==
    /\ (HandledSearch /\ Tracks # <<>>)
         => /\ Len(Tracks) = Len(Emitted)
            /\ \A i \in 1..Len(Tracks) :
                  /\ Tracks[i].duration = ClaimedDuration(Emitted[i].duration)
                  /\ Tracks[i].duration >= 0
                  /\ Tracks[i].duration % 1000 = 0
    /\ (HandledTrack /\ response.status = 200)
         => /\ response.body.data.duration = ClaimedDuration(engine.duration)
            /\ response.body.data.duration >= 0
            /\ response.body.data.duration % 1000 = 0

\* C9 witness: a search emitted a track of null duration as 0 and a track
\* of duration 1 as 1000.
C9_Witness ==
    /\ HandledSearch
    /\ Len(Tracks) = 2
    /\ Emitted[1].duration = NoneN
    /\ Tracks[1].duration = 0
    /\ Emitted[2].duration = Num(1)
    /\ Tracks[2].duration = 1000

(***************************************************************************)
(* Claims about concurrent requests                                        *)
(***************************************************************************)
\* The request is one whose handler calls the engine.
CallsEngine(req) == ~(req.kind = "search" /\ req.arg = <<>>)

\* The response the request receives when it is the only one: that of the
\* sequential handler on the same engine result.
Alone(req, out) ==
    IF req.kind = "search"
    THEN (IF req.arg = <<>> THEN [status |-> 400, detail |-> "Query parameter 'q' is required"]
          ELSE search_response(req.arg, out))
    ELSE IF req.kind = "track" THEN track_response(req.arg, out)
    ELSE IF req.kind = "stream" THEN stream_response(get_stream_url(out).url, "high")
    ELSE download_response(get_stream_url(out).url, "high")

\* C10 (as stated): every finished request has invoked the engine exactly
\* once and its response is the one it would receive alone.
C10_ExactlyOneCallEach ==
    \A r \in DOMAIN rpc :
        rpc[r] = "done" => rcalls[r] = 1 /\ rresp[r] = Alone(rreq[r], rinfo[r])

\* C10 (amended): a search with an empty q is answered 400 without any
\* engine call; every other request invokes the engine exactly once (never
\* more at any moment), and its response is the one it would receive alone
\* on the same engine result. No step of a request changes the engine
\* result, the call count or the response of another request, and a
\* request's engine result and response never change once set.
C10_IndependentRequests ==
    /\ [](\A r \in DOMAIN rpc :
             /\ rcalls[r] <= 1
             /\ (rpc[r] = "start") => rcalls[r] = 0
             /\ (rpc[r] = "called") => rcalls[r] = 1
             /\ (rpc[r] = "done")
                  => /\ rcalls[r] = (IF CallsEngine(rreq[r]) THEN 1 ELSE 0)
                     /\ rresp[r] = Alone(rreq[r], rinfo[r]))
    /\ [][\A r \in DOMAIN rpc :
             /\ (rpc'[r] = rpc[r])
                  => rinfo'[r] = rinfo[r] /\ rcalls'[r] = rcalls[r] /\ rresp'[r] = rresp[r]
             /\ (rpc[r] # "start") => rinfo'[r] = rinfo[r] /\ rcalls'[r] = rcalls[r]
             /\ (rpc[r] = "done") => rresp'[r] = rresp[r] /\ rpc'[r] = "done"]_vars

\* C10 witness: two stream requests ran together, each called the engine
\* once, and one got its url while the other got 404.
C10_Witness ==
    /\ DOMAIN rpc = Requests
    /\ rpc[1] = "done"
    /\ rpc[2] = "done"
    /\ rreq[1] = [kind |-> "stream", arg |-> TrackId]
    /\ rreq[2] = [kind |-> "stream", arg |-> TrackId]
    /\ rcalls[1] = 1
    /\ rcalls[2] = 1
    /\ rresp[1].status = 200
    /\ rresp[2].status = 404

====
